---------------------------- MODULE Spec2Model ----------------------------
(***************************************************************************)
(* A model of pr2_calibration_estimation/sensors/camera_chain_sensor.py:   *)
(* CameraChainBundler.build_blocks and the CameraChainSensor object.       *)
(*                                                                         *)
(* Numbers.  Pixel coordinates, target coordinates and variances are       *)
(* integers.  Joint positions are counted in units of 0.5e-8 rad, so the   *)
(* finite-difference step epsilon = 1e-8 of compute_cov is 2 units; the    *)
(* forward model used here is linear with integer coefficients, so the     *)
(* quotients (fTest - f0)/epsilon are exact.  Floating-point rounding is   *)
(* not modelled.                                                           *)
(*                                                                         *)
(* numpy.  A 2-D numpy.matrix is a record [r, c, d]: r rows, c columns and *)
(* d a function on (1..r) \X (1..c).  A 1-D numpy array and a Python list  *)
(* are sequences.  Indices are 1-based here and 0-based in the source.     *)
(*                                                                         *)
(* Results.  A call returns [ok |-> TRUE, val |-> v] or ends in an         *)
(* exception [ok |-> FALSE, err |-> name of the exception].                *)
(*                                                                         *)
(* Python.  The source is Python 2 (shape[0]/2 is an integer division).    *)
(* The joint-state vector chain_state.position is a Python list, as a      *)
(* JointState() holds by default: position[:] copies it.                   *)
(***************************************************************************)
EXTENDS Integers, Sequences, FiniteSets, TLC

VARIABLES
    valid_configs,  \* CameraChainBundler._valid_configs
    M_robot,        \* the robot measurement handed to build_blocks
    sensors,        \* what build_blocks returned (<<>> before the call)
    built,          \* TRUE once build_blocks has returned
    sensor,         \* one CameraChainSensor: its fields
    ret,            \* the last call on the sensor: name, argument, outcome
    probe,          \* locals of the last call: forward-model calls made, Jt
    updated         \* TRUE once update_config has been called on the sensor

vars == <<valid_configs, M_robot, sensors, built, sensor, ret, probe, updated>>

-----------------------------------------------------------------------------
(* Bounds of the model *)

MaxPts == 2         \* image points of an observation, columns of target_pts
MaxJoints == 2      \* joints of a chain observation, links of a dh chain
MaxCatalog == 2     \* entries of the valid-config catalog
MaxObs == 2         \* camera (chain) observations of a robot measurement

(* The +epsilon step of compute_cov, in units of 0.5e-8 *)
epsilon == 2

CameraIds == {"cam1", "cam2"}
ChainIds == {"armL", "armR"}

RECURSIVE SeqsUpTo(_, _)
SeqsUpTo(S, n) ==
    IF n = 0 THEN {<<>>}
    ELSE LET shorter == SeqsUpTo(S, n - 1)
         IN  shorter \cup {Append(q, e) : q \in {p \in shorter : Len(p) = n - 1}, e \in S}

Ok(v) == [ok |-> TRUE, err |-> "", val |-> v]
Err(e) == [ok |-> FALSE, err |-> e, val |-> <<>>]

-----------------------------------------------------------------------------
(* numpy, as the source uses it *)

Idx(r, c) == (1..r) \X (1..c)

\* numpy.matrix(list of [x, y] rows): N x 2, but 1 x 0 for the empty list
NpMatrixOfRows(rows) ==
    IF rows = <<>> THEN [r |-> 1, c |-> 0, d |-> [p \in Idx(1, 0) |-> 0]]
    ELSE [r |-> Len(rows), c |-> 2, d |-> [p \in Idx(Len(rows), 2) |-> rows[p[1]][p[2]]]]

\* numpy.matrix(1-D array): a single row
NpMatrixOfVector(v) == [r |-> 1, c |-> Len(v), d |-> [p \in Idx(1, Len(v)) |-> v[p[2]]]]

Transpose(m) == [r |-> m.c, c |-> m.r, d |-> [p \in Idx(m.c, m.r) |-> m.d[<<p[2], p[1]>>]]]

Zeros(r, c) == [r |-> r, c |-> c, d |-> [p \in Idx(r, c) |-> 0]]

\* reshape(m, [-1]): row-major flattening
Flatten(m) ==
    [k \in 1..(m.r * m.c) |-> m.d[<<((k - 1) \div m.c) + 1, ((k - 1) % m.c) + 1>>]]

\* numpy broadcasting of one dimension: equal, or one of them is 1
BroadcastDim(a, b) == IF a = b THEN a ELSE IF a = 1 THEN b ELSE IF b = 1 THEN a ELSE -1

\* a - b on matrices, with broadcasting; ValueError when the shapes do not broadcast
MatSub(a, b) ==
    LET r == BroadcastDim(a.r, b.r)
        c == BroadcastDim(a.c, b.c)
        at(m, p) == m.d[<<IF m.r = 1 THEN 1 ELSE p[1], IF m.c = 1 THEN 1 ELSE p[2]>>]
    IN  IF r < 0 \/ c < 0 THEN Err("ValueError")
        ELSE Ok([r |-> r, c |-> c, d |-> [p \in Idx(r, c) |-> at(a, p) - at(b, p)]])

RECURSIVE SumSeq(_)
SumSeq(s) == IF s = <<>> THEN 0 ELSE s[1] + SumSeq(Tail(s))

\* a * b on matrices; ValueError when the inner dimensions differ
MatMul(a, b) ==
    IF a.c # b.r THEN Err("ValueError")
    ELSE Ok([r |-> a.r, c |-> b.c,
             d |-> [p \in Idx(a.r, b.c) |->
                      SumSeq([k \in 1..a.c |-> a.d[<<p[1], k>>] * b.d[<<k, p[2]>>]])]])

MatAdd(a, b) == [r |-> a.r, c |-> a.c, d |-> [p \in Idx(a.r, a.c) |-> a.d[p] + b.d[p]]]

\* numpy.diag of a 1-D sequence: the square matrix with it on the diagonal
DiagOfVector(v) ==
    [r |-> Len(v), c |-> Len(v),
     d |-> [p \in Idx(Len(v), Len(v)) |-> IF p[1] = p[2] THEN v[p[1]] ELSE 0]]

\* numpy.diag of a 2-D array: its diagonal, a 1-D array
DiagOfMatrix(m) ==
    [k \in 1..(IF m.r < m.c THEN m.r ELSE m.c) |-> m.d[<<k, k>>]]

-----------------------------------------------------------------------------
(* The data the sensor is built from *)

\* a camera observation: M_robot.M_cam[i]
CamObs(id, pts) == [camera_id |-> id, image_points |-> pts, cam_info |-> [P |-> 1]]

\* a chain observation: M_robot.M_chain[i]; chain_state is a JointState
ChainObs(id, pos) == [chain_id |-> id, chain_state |-> [position |-> pos]]

\* an entry of the valid-config catalog
Config(cam, chain, before, after) ==
    [camera_id |-> cam,
     chain |-> [chain_id |-> chain, before_chain |-> before, after_chain |-> after]]

\* the calc block of a FullChainRobotParams on which update_config never ran
UnconfiguredCalcBlock ==
    [configured |-> FALSE, src |-> 0,
     _chain |-> [_M |-> 0, _cov_dict |-> [joint_angles |-> <<>>], offset |-> 0]]

\* FullChainRobotParams(config_dict["chain"])
FullChainRobotParams(chain_config) ==
    [_config_dict |-> chain_config, calc_block |-> UnconfiguredCalcBlock]

\* self._camera before update_config: the attribute does not exist
NoCamera == [bound |-> FALSE, src |-> 0, f |-> 0, _cov_dict |-> [u |-> 0, v |-> 0]]

\* CameraChainSensor.__init__
CameraChainSensor(config_dict, M_cam, M_chain) ==
    [sensor_type |-> "camera",
     sensor_id |-> config_dict.camera_id,
     _config_dict |-> config_dict,
     _M_cam |-> M_cam,
     _M_chain |-> M_chain,
     _chain |-> FullChainRobotParams(config_dict.chain),
     _camera |-> NoCamera]

-----------------------------------------------------------------------------
(* CameraChainBundler *)

\* [ x.camera_id for x in M_robot.M_cam ]
CameraIdsOf(M) == [i \in 1..Len(M.M_cam) |-> M.M_cam[i].camera_id]

\* [ x.chain_id for x in M_robot.M_chain ]
ChainIdsOf(M) == [i \in 1..Len(M.M_chain) |-> M.M_chain[i].chain_id]

\* v in list
InList(v, list) == \E i \in 1..Len(list) : list[i] = v

\* ListIndex gone wrong: the last place of v
ListIndexLast(list, v) ==
    CHOOSE i \in 1..Len(list) : list[i] = v /\ \A j \in (i + 1)..Len(list) : list[j] # v

\* list.index(v): the first place of v
ListIndex(list, v) ==
    CHOOSE i \in 1..Len(list) : list[i] = v /\ \A j \in 1..(i - 1) : list[j] # v

\* the loop of build_blocks over the configs from place k on
RECURSIVE BuildFrom(_, _, _)
BuildFrom(configs, M, k) ==
    IF k > Len(configs) THEN <<>>
    ELSE LET cur_config == configs[k]
         IN  IF /\ InList(cur_config.camera_id, CameraIdsOf(M))
                /\ InList(cur_config.chain.chain_id, ChainIdsOf(M))
             THEN LET M_cam == M.M_cam[ListIndex(CameraIdsOf(M), cur_config.camera_id)]
                      M_chain == M.M_chain[ListIndex(ChainIdsOf(M), cur_config.chain.chain_id)]
                  IN  <<CameraChainSensor(cur_config, M_cam, M_chain)>>
                        \o BuildFrom(configs, M, k + 1)
             ELSE BuildFrom(configs, M, k + 1)

build_blocks(configs, M) == BuildFrom(configs, M, 1)

-----------------------------------------------------------------------------
(* RobotParameters and the two collaborators of the sensor.  Their code is  *)
(* not in camera_chain_sensor.py; they are stand-ins with the interface the *)
(* sensor uses: rectified_cams[id], dh_chains[id], fk, project.             *)

\* robot_params number g: the parameters of generation g.  has_cams and
\* has_chains say whether its rectified_cams and dh_chains hold any entry,
\* m is the link count of its chains.
RobotParams(g, has_cams, has_chains, m) ==
    [src |-> g,
     rectified_cams |->
        [id \in (IF has_cams THEN CameraIds ELSE {}) |->
            [bound |-> TRUE, src |-> g, f |-> g, _cov_dict |-> [u |-> g, v |-> g + 1]]],
     dh_chains |->
        [id \in (IF has_chains THEN ChainIds ELSE {}) |->
            [_M |-> m,
             _cov_dict |-> [joint_angles |-> [i \in 1..m |-> g + i]],
             offset |-> g]]]

\* FullChainRobotParams.update_config(robot_params): looks the chain up by
\* its id and hands it to the calc block; KeyError when it is missing
FullChain_update_config(self, robot_params) ==
    LET id == self._config_dict.chain_id
    IN  IF id \notin DOMAIN robot_params.dh_chains
        THEN [res |-> Err("KeyError"), self |-> self]
        ELSE [res |-> Ok(<<>>),
              self |-> [self EXCEPT !.calc_block =
                          [configured |-> TRUE, src |-> robot_params.src,
                           _chain |-> robot_params.dh_chains[id]]]]

\* calc_block.fk(chain_state): the camera pose in the root frame, here one
\* number, linear in the joint positions with a different weight per joint
fk(calc_block, chain_state) ==
    IF ~calc_block.configured THEN Err("AttributeError")
    ELSE Ok(calc_block._chain.offset
            + SumSeq([i \in 1..Len(chain_state.position) |-> i * chain_state.position[i]]))

\* camera_pose_root.I * target_pts: the target points in the camera frame,
\* one number per column of target_pts
InCameraFrame(pose, target_pts) == [k \in 1..Len(target_pts) |-> target_pts[k] - pose]

\* camera.project(P, pts): a 2 x N matrix, row 1 the u and row 2 the v pixels
project(camera, P, pts) ==
    [r |-> 2, c |-> Len(pts),
     d |-> [p \in Idx(2, Len(pts)) |->
              IF p[1] = 1 THEN camera.f * P * pts[p[2]] ELSE P * pts[p[2]] + camera.f]]

-----------------------------------------------------------------------------
(* CameraChainSensor *)

\* update_config: the outcome and the object afterwards
update_config(self, robot_params) ==
    LET id == self._config_dict.camera_id
    IN  IF id \notin DOMAIN robot_params.rectified_cams
        THEN [res |-> Err("KeyError"), self |-> self]
        ELSE LET s1 == [self EXCEPT !._camera = robot_params.rectified_cams[id]]
                 c == FullChain_update_config(s1._chain, robot_params)
             IN  [res |-> c.res, self |-> [s1 EXCEPT !._chain = c.self]]

get_residual_length(self) ==
    LET N == Len(self._M_cam.image_points)
    IN  N * 2

get_measurement(self) == NpMatrixOfRows(self._M_cam.image_points)

\* _compute_expected gone wrong: a sensor that falls back on default
\* parameters (generation 0) when update_config never resolved any
_compute_expected_defaults(self, chain_state, target_pts) ==
    LET pose == fk([self._chain.calc_block EXCEPT !.configured = TRUE], chain_state)
    IN  Ok(Transpose(project(self._camera, self._M_cam.cam_info.P,
                             InCameraFrame(pose.val, target_pts))))

_compute_expected(self, chain_state, target_pts) ==
    LET camera_pose_root == fk(self._chain.calc_block, chain_state)
    IN  IF ~camera_pose_root.ok THEN camera_pose_root
        ELSE IF ~self._camera.bound THEN Err("AttributeError")
        ELSE LET cam_frame_pts == InCameraFrame(camera_pose_root.val, target_pts)
                 pixel_pts == project(self._camera, self._M_cam.cam_info.P, cam_frame_pts)
             IN  Ok(Transpose(pixel_pts))

compute_expected(self, target_pts) ==
    _compute_expected(self, self._M_chain.chain_state, target_pts)

compute_residual(self, target_pts) ==
    LET z_mat == get_measurement(self)
        h_mat == compute_expected(self, target_pts)
    IN  IF ~h_mat.ok THEN h_mat
        ELSE IF ~(z_mat.c = 2) THEN Err("AssertionError")
        ELSE IF ~(h_mat.val.c = 2) THEN Err("AssertionError")
        ELSE IF ~(z_mat.r = z_mat.r) THEN Err("AssertionError")
        ELSE LET diff == MatSub(h_mat.val, z_mat)
             IN  IF ~diff.ok THEN diff ELSE Ok(Flatten(diff.val))

\* PositionSlice gone wrong: no copy, x.position is the bound list itself
PositionAlias(position) == [vec |-> position, alias |-> TRUE]

\* self._M_chain.chain_state.position[:] of a Python list: a copy of it
PositionSlice(position) == [vec |-> position, alias |-> FALSE]

\* JacobianRow gone wrong: the difference is not divided by epsilon
JacobianRowUnscaled(fTest, f0) == [k \in 1..Len(fTest) |-> fTest[k] - f0[k]]

\* (fTest - f0)/epsilon on two 1-D arrays of one length
JacobianRow(fTest, f0) == [k \in 1..Len(fTest) |-> (fTest[k] - f0[k]) \div epsilon]

\* Jt[i] = row: ValueError unless row has as many elements as Jt has
\* columns, or a single element that numpy broadcasts
SetRow(Jt, i, row) ==
    IF Len(row) # Jt.c /\ Len(row) # 1 THEN Err("ValueError")
    ELSE Ok([Jt EXCEPT !.d =
                [p \in Idx(Jt.r, Jt.c) |->
                    IF p[1] = i THEN (IF Len(row) = 1 THEN row[1] ELSE row[p[2]])
                    ELSE Jt.d[p]]])

\* the loop of compute_cov from joint i on.  st holds the bound position
\* list, the chain states the forward model was called on, and Jt.
RECURSIVE JacobianLoop(_, _, _, _, _)
JacobianLoop(self, target_pts, f0, i, st) ==
    IF i > st.Jt.r THEN [res |-> Ok(<<>>), bound |-> st.bound, calls |-> st.calls, Jt |-> st.Jt]
    ELSE LET sl == PositionSlice(st.bound)
             x == [sl.vec EXCEPT ![i] = @ + epsilon]
             bound1 == IF sl.alias THEN x ELSE st.bound
             calls1 == Append(st.calls, x)
             e == _compute_expected(self, [position |-> x], target_pts)
         IN  IF ~e.ok THEN [res |-> e, bound |-> bound1, calls |-> calls1, Jt |-> st.Jt]
             ELSE LET fTest == Flatten(e.val)
                      set == SetRow(st.Jt, i, JacobianRow(fTest, f0))
                  IN  IF ~set.ok
                      THEN [res |-> set, bound |-> bound1, calls |-> calls1, Jt |-> st.Jt]
                      ELSE JacobianLoop(self, target_pts, f0, i + 1,
                                        [bound |-> bound1, calls |-> calls1, Jt |-> set.val])

\* cam_cov: zeros of chain_cov's shape with u, v alternating on the diagonal,
\* for k in range(rows/2) (Python 2 integer division)
CamCov(camera, rows, cols) ==
    [r |-> rows, c |-> cols,
     d |-> [p \in Idx(rows, cols) |->
              IF p[1] = p[2] /\ p[1] <= 2 * (rows \div 2)
              THEN (IF p[1] % 2 = 1 THEN camera._cov_dict.u ELSE camera._cov_dict.v)
              ELSE 0]]

\* compute_cov: the outcome, the bound position list afterwards, the chain
\* states the forward model was called on, and Jt as the call left it
compute_cov(self, target_pts) ==
    LET position == self._M_chain.chain_state.position
        num_joints == Len(position)
        Jt0 == Zeros(num_joints, get_residual_length(self))
        sl == PositionSlice(position)
        e0 == _compute_expected(self, [position |-> sl.vec], target_pts)
    IN  IF ~e0.ok
        THEN [res |-> e0, bound |-> position, calls |-> <<sl.vec>>, Jt |-> Jt0]
        ELSE LET f0 == Flatten(e0.val)
                 lp == JacobianLoop(self, target_pts, f0, 1,
                                    [bound |-> position, calls |-> <<sl.vec>>, Jt |-> Jt0])
             IN  IF ~lp.res.ok THEN lp
                 ELSE LET Jt == lp.Jt
                          cov_angles ==
                              DiagOfVector(self._chain.calc_block._chain._cov_dict.joint_angles)
                          left == MatMul(Transpose(Jt), NpMatrixOfVector(DiagOfMatrix(cov_angles)))
                      IN  IF ~left.ok THEN [lp EXCEPT !.res = left]
                          ELSE LET chain_cov == MatMul(left.val, Jt)
                               IN  IF ~chain_cov.ok THEN [lp EXCEPT !.res = chain_cov]
                                   ELSE LET cam_cov == CamCov(self._camera, chain_cov.val.r,
                                                              chain_cov.val.c)
                                        IN  [lp EXCEPT !.res = Ok(MatAdd(chain_cov.val, cam_cov))]

\* d[k] = v on a Python dict, a function here
DictSet(d, k, v) == [x \in (DOMAIN d) \cup {k} |-> IF x = k THEN v ELSE d[x]]

\* the loop that fills sparsity['transforms'] from the names from place k on
RECURSIVE TransformsFrom(_, _, _)
TransformsFrom(names, k, d) ==
    IF k > Len(names) THEN d
    ELSE TransformsFrom(names, k + 1, DictSet(d, names[k], <<1, 1, 1, 1, 1, 1>>))

\* build_sparsity_dict gone wrong: the link count is not checked
build_sparsity_dict_unchecked(self) ==
    LET chain == self._config_dict.chain
        num_links == self._chain.calc_block._chain._M
    IN  Ok([transforms |-> TransformsFrom(chain.before_chain \o chain.after_chain, 1, <<>>),
            dh_chains |-> DictSet(<<>>, chain.chain_id, [i \in 1..num_links |-> <<1, 1, 1, 1>>]),
            rectified_cameras |-> DictSet(<<>>, self.sensor_id, [baseline_shift |-> 1])])

build_sparsity_dict(self) ==
    LET chain == self._config_dict.chain
        transforms == TransformsFrom(chain.before_chain \o chain.after_chain, 1, <<>>)
        chain_id == chain.chain_id
    IN  IF ~self._chain.calc_block.configured THEN Err("AttributeError")
        ELSE LET num_links == self._chain.calc_block._chain._M
             IN  IF ~(num_links = Len(self._M_chain.chain_state.position))
                 THEN Err("AssertionError")
                 ELSE Ok([transforms |-> transforms,
                          dh_chains |->
                             DictSet(<<>>, chain_id, [i \in 1..num_links |-> <<1, 1, 1, 1>>]),
                          rectified_cameras |->
                             DictSet(<<>>, self.sensor_id, [baseline_shift |-> 1])])

-----------------------------------------------------------------------------
(* The inputs the model draws from *)

ImagePoints == {<<0, 1>>, <<3, 2>>}     \* observed pixels (x, y)
Generations == {1, 2}                   \* the optimizer's parameter generations

\* the joint-state vectors of 0..MaxJoints joints
JointStates == {[i \in 1..n |-> i] : n \in 0..MaxJoints}

\* the target_pts arguments of 0..MaxPts columns, one number per column
TargetPts == {[k \in 1..n |-> k + 1] : n \in 0..MaxPts}

\* the robot_params arguments: of each generation, one without cameras, one
\* without chains, and one per link count with both
RobotParamsSet ==
    {RobotParams(g, FALSE, TRUE, 0) : g \in Generations}
        \cup {RobotParams(g, TRUE, FALSE, 0) : g \in Generations}
        \cup {RobotParams(g, TRUE, TRUE, m) : g \in Generations, m \in 0..MaxJoints}

\* the configs a sensor of the sensor specification is built from
SensorConfigs ==
    {Config("cam1", "armL", <<"mount">>, <<>>),
     Config("cam2", "armR", <<"base", "mount">>, <<"mount">>)}

\* the entries a catalog of the builder specification is drawn from
CatalogConfigs == {Config(c, h, <<"mount">>, <<>>) : c \in CameraIds, h \in ChainIds}

\* a robot measurement whose i-th observations carry the ids cams[i] and
\* chains[i]; every observation differs from the others in its data
Measurement(cams, chains) ==
    [M_cam |-> [i \in 1..Len(cams) |-> CamObs(cams[i], <<<<i, i>>>>)],
     M_chain |-> [i \in 1..Len(chains) |-> ChainObs(chains[i], <<i>>)]]

NoMeasurement == [M_cam |-> <<>>, M_chain |-> <<>>]

NoProbe == [x0 |-> <<>>, calls |-> <<>>, Jt |-> Zeros(0, 0)]

Constructed == [op |-> "__init__", arg |-> <<>>, res |-> Ok(<<>>)]

-----------------------------------------------------------------------------
(* The sensor specification: one CameraChainSensor and the calls on it *)

Init ==
    /\ valid_configs = <<>>
    /\ M_robot = NoMeasurement
    /\ sensors = <<>>
    /\ built = FALSE
    /\ sensor \in {CameraChainSensor(c, CamObs(c.camera_id, pts),
                                     ChainObs(c.chain.chain_id, pos)) :
                      c \in SensorConfigs,
                      pts \in SeqsUpTo(ImagePoints, MaxPts),
                      pos \in JointStates}
    /\ ret = Constructed
    /\ probe = NoProbe
    /\ updated = FALSE

BuilderUnchanged == UNCHANGED <<valid_configs, M_robot, sensors, built>>

UpdateConfig ==
    \E robot_params \in RobotParamsSet :
        LET u == update_config(sensor, robot_params)
        IN  /\ sensor' = u.self
            /\ ret' = [op |-> "update_config", arg |-> <<>>, res |-> u.res]
            /\ probe' = NoProbe
            /\ updated' = TRUE
            /\ BuilderUnchanged

GetResidualLength ==
    /\ ret' = [op |-> "get_residual_length", arg |-> <<>>,
               res |-> Ok(get_residual_length(sensor))]
    /\ probe' = NoProbe
    /\ UNCHANGED <<sensor, updated>>
    /\ BuilderUnchanged

GetMeasurement ==
    /\ ret' = [op |-> "get_measurement", arg |-> <<>>, res |-> Ok(get_measurement(sensor))]
    /\ probe' = NoProbe
    /\ UNCHANGED <<sensor, updated>>
    /\ BuilderUnchanged

ComputeExpected ==
    \E target_pts \in TargetPts :
        /\ ret' = [op |-> "compute_expected", arg |-> target_pts,
                   res |-> compute_expected(sensor, target_pts)]
        /\ probe' = NoProbe
        /\ UNCHANGED <<sensor, updated>>
        /\ BuilderUnchanged

ComputeResidual ==
    \E target_pts \in TargetPts :
        /\ ret' = [op |-> "compute_residual", arg |-> target_pts,
                   res |-> compute_residual(sensor, target_pts)]
        /\ probe' = NoProbe
        /\ UNCHANGED <<sensor, updated>>
        /\ BuilderUnchanged

ComputeCov ==
    \E target_pts \in TargetPts :
        LET c == compute_cov(sensor, target_pts)
        IN  /\ sensor' = [sensor EXCEPT !._M_chain.chain_state.position = c.bound]
            /\ ret' = [op |-> "compute_cov", arg |-> target_pts, res |-> c.res]
            /\ probe' = [x0 |-> sensor._M_chain.chain_state.position,
                         calls |-> c.calls, Jt |-> c.Jt]
            /\ UNCHANGED updated
            /\ BuilderUnchanged

BuildSparsityDict ==
    /\ ret' = [op |-> "build_sparsity_dict", arg |-> <<>>, res |-> build_sparsity_dict(sensor)]
    /\ probe' = NoProbe
    /\ UNCHANGED <<sensor, updated>>
    /\ BuilderUnchanged

Next ==
    \/ UpdateConfig
    \/ GetResidualLength
    \/ GetMeasurement
    \/ ComputeExpected
    \/ ComputeResidual
    \/ ComputeCov
    \/ BuildSparsityDict

Spec == Init /\ [][Next]_vars

-----------------------------------------------------------------------------
(* The builder specification: one CameraChainBundler and one build_blocks *)

InitBuild ==
    /\ valid_configs \in SeqsUpTo(CatalogConfigs, MaxCatalog)
    /\ M_robot \in {Measurement(cams, chains) :
                       cams \in SeqsUpTo(CameraIds, MaxObs),
                       chains \in SeqsUpTo(ChainIds, MaxObs)}
    /\ sensors = <<>>
    /\ built = FALSE
    /\ sensor = CameraChainSensor(Config("cam1", "armL", <<>>, <<>>),
                                  CamObs("cam1", <<>>), ChainObs("armL", <<>>))
    /\ ret = Constructed
    /\ probe = NoProbe
    /\ updated = FALSE

BuildBlocks ==
    /\ ~built
    /\ sensors' = build_blocks(valid_configs, M_robot)
    /\ built' = TRUE
    /\ UNCHANGED <<valid_configs, M_robot, sensor, ret, probe, updated>>

NextBuild == BuildBlocks

SpecBuild == InitBuild /\ [][NextBuild]_vars

-----------------------------------------------------------------------------
(* What the claims speak of *)

NumPoints == Len(sensor._M_cam.image_points)
NumJoints == Len(sensor._M_chain.chain_state.position)
Configured == sensor._camera.bound /\ sensor._chain.calc_block.configured
Queries == {"compute_expected", "compute_residual", "compute_cov"}

\* the places of the catalog entries that have a camera and a chain observation
Matched ==
    {i \in 1..Len(valid_configs) :
        /\ \E a \in 1..Len(M_robot.M_cam) :
              M_robot.M_cam[a].camera_id = valid_configs[i].camera_id
        /\ \E b \in 1..Len(M_robot.M_chain) :
              M_robot.M_chain[b].chain_id = valid_configs[i].chain.chain_id}

\* the forward model on joint-state vector x and the last call's target_pts, flattened
Forward(x) == Flatten(_compute_expected(sensor, [position |-> x], ret.arg).val)

-----------------------------------------------------------------------------
(* C1: build_blocks returns one sensor per catalog entry whose camera_id is *)
(* among the camera observations and whose chain_id is among the chain      *)
(* observations, and none for another entry; the sensors are in catalog     *)
(* order, each has its entry's camera_id as sensor_id and is bound to the   *)
(* first camera and the first chain observation with those ids; entries     *)
(* without a match are skipped and the result may be empty.                 *)
C1_BuildBlocksMatchesCatalog ==
    built =>
        /\ Len(sensors) = Cardinality(Matched)
        /\ \A i \in Matched :
              LET k == Cardinality({j \in Matched : j <= i})
                  cfg == valid_configs[i]
                  a == CHOOSE a \in 1..Len(M_robot.M_cam) :
                          /\ M_robot.M_cam[a].camera_id = cfg.camera_id
                          /\ \A a2 \in 1..(a - 1) : M_robot.M_cam[a2].camera_id # cfg.camera_id
                  b == CHOOSE b \in 1..Len(M_robot.M_chain) :
                          /\ M_robot.M_chain[b].chain_id = cfg.chain.chain_id
                          /\ \A b2 \in 1..(b - 1) :
                                M_robot.M_chain[b2].chain_id # cfg.chain.chain_id
              IN  /\ sensors[k].sensor_id = cfg.camera_id
                  /\ sensors[k]._config_dict = cfg
                  /\ sensors[k]._M_cam = M_robot.M_cam[a]
                  /\ sensors[k]._M_chain = M_robot.M_chain[b]

\* a catalog of two entries of which one is skipped, and the other is bound to
\* the first of two camera observations and of two chain observations with its ids
C1_Witness ==
    /\ built
    /\ Len(valid_configs) = 2
    /\ Len(sensors) = 1
    /\ Len(M_robot.M_cam) = 2
    /\ M_robot.M_cam[1].camera_id = M_robot.M_cam[2].camera_id
    /\ Len(M_robot.M_chain) = 2
    /\ M_robot.M_chain[1].chain_id = M_robot.M_chain[2].chain_id
    /\ sensors[1]._M_cam = M_robot.M_cam[1]
    /\ sensors[1]._config_dict = valid_configs[2]

(* C2: on a sensor bound to N image points, after update_config, and for    *)
(* target_pts of N columns, compute_residual returns a flat sequence of     *)
(* length get_residual_length() = 2N whose elements 2i and 2i+1 (0-based)   *)
(* are expected_x(i) - observed_x(i) and expected_y(i) - observed_y(i).     *)
C2_ResidualIsExpectedMinusObserved ==
    (ret.op = "compute_residual" /\ Configured /\ Len(ret.arg) = NumPoints) =>
        /\ ret.res.ok
        /\ Len(ret.res.val) = get_residual_length(sensor)
        /\ Len(ret.res.val) = 2 * NumPoints
        /\ LET expected == compute_expected(sensor, ret.arg).val
               observed == sensor._M_cam.image_points
           IN  \A i \in 1..NumPoints :
                  /\ ret.res.val[2 * i - 1] = expected.d[<<i, 1>>] - observed[i][1]
                  /\ ret.res.val[2 * i] = expected.d[<<i, 2>>] - observed[i][2]

(* C3: a shape mismatch is fatal in compute_residual: when target_pts has a *)
(* column count other than the number N of bound image points (the expected *)
(* and the observed structure differ in row count), or one of the two has   *)
(* not exactly 2 columns, the call ends in an error; it never returns a     *)
(* vector whose length differs from 2N.                                     *)
C3_ShapeMismatchIsFatal ==
    ret.op = "compute_residual" =>
        /\ (Len(ret.arg) # NumPoints \/ get_measurement(sensor).c # 2) => ~ret.res.ok
        /\ ret.res.ok => Len(ret.res.val) = 2 * NumPoints

(* C4: compute_expected, compute_residual and compute_cov called before the *)
(* first update_config end in an error; a value of theirs is only ever      *)
(* computed from a camera view and chain parameters that an update_config   *)
(* call took from its robot_params.                                         *)
C4_QueryBeforeUpdateConfigFails ==
    ret.op \in Queries =>
        /\ ~updated => ~ret.res.ok
        /\ ret.res.ok =>
              /\ updated
              /\ sensor._camera.bound
              /\ sensor._camera.src \in Generations
              /\ sensor._chain.calc_block.configured
              /\ sensor._chain.calc_block.src \in Generations

\* compute_cov on a fresh sensor with joints and points has failed
C4_Witness ==
    /\ ~updated
    /\ ret.op = "compute_cov"
    /\ ~ret.res.ok
    /\ NumJoints >= 1
    /\ NumPoints >= 1

(* C5: for a chain with zero joints (empty joint-state vector, empty list   *)
(* of joint-angle variances) and N observed points, compute_cov returns the *)
(* (2N)x(2N) camera-noise diagonal: u at (2k,2k), v at (2k+1,2k+1), zero    *)
(* elsewhere.                                                               *)
C5_ZeroJointCovIsCameraNoise ==
    (/\ ret.op = "compute_cov"
     /\ Configured
     /\ Len(ret.arg) = NumPoints
     /\ NumJoints = 0
     /\ sensor._chain.calc_block._chain._cov_dict.joint_angles = <<>>) =>
        /\ ret.res.ok
        /\ ret.res.val =
              [r |-> 2 * NumPoints, c |-> 2 * NumPoints,
               d |-> [p \in Idx(2 * NumPoints, 2 * NumPoints) |->
                        IF p[1] # p[2] THEN 0
                        ELSE IF p[1] % 2 = 1 THEN sensor._camera._cov_dict.u
                        ELSE sensor._camera._cov_dict.v]]

(* C6: for a chain with J joints (every J >= 0) and J per-joint variances,  *)
(* and N observed points, compute_cov returns a (2N)x(2N) structure with    *)
(* cov[i][j] = cov[j][i] for all i, j.                                      *)
C6_CovIsSymmetric ==
    (/\ ret.op = "compute_cov"
     /\ Configured
     /\ Len(ret.arg) = NumPoints
     /\ Len(sensor._chain.calc_block._chain._cov_dict.joint_angles) = NumJoints) =>
        /\ ret.res.ok
        /\ ret.res.val.r = 2 * NumPoints
        /\ ret.res.val.c = 2 * NumPoints
        /\ \A p \in Idx(2 * NumPoints, 2 * NumPoints) :
              ret.res.val.d[p] = ret.res.val.d[<<p[2], p[1]>>]

(* C7: build_sparsity_dict returns a descriptor of exactly three groups:    *)
(* 'transforms' with one 6-element all-ones mask per distinct name of       *)
(* before_chain + after_chain, 'dh_chains' with one entry, keyed by the     *)
(* chain_id, of num_links masks of 4 ones, and 'rectified_cameras' with one *)
(* entry, keyed by the sensor id, with baseline_shift 1.  When the link     *)
(* count differs from the length of the bound joint-state vector the call   *)
(* fails with an assertion and returns no descriptor.                       *)
C7_SparsityDescriptor ==
    ret.op = "build_sparsity_dict" =>
        LET chain == sensor._config_dict.chain
            listed == chain.before_chain \o chain.after_chain
            names == {listed[i] : i \in 1..Len(listed)}
            num_links == sensor._chain.calc_block._chain._M
            sparsity == ret.res.val
        IN  /\ ret.res.ok =>
                  /\ DOMAIN sparsity = {"transforms", "dh_chains", "rectified_cameras"}
                  /\ DOMAIN sparsity.transforms = names
                  /\ \A n \in names : sparsity.transforms[n] = <<1, 1, 1, 1, 1, 1>>
                  /\ DOMAIN sparsity.dh_chains = {chain.chain_id}
                  /\ Len(sparsity.dh_chains[chain.chain_id]) = num_links
                  /\ \A i \in 1..num_links :
                        sparsity.dh_chains[chain.chain_id][i] = <<1, 1, 1, 1>>
                  /\ DOMAIN sparsity.rectified_cameras = {sensor.sensor_id}
                  /\ sparsity.rectified_cameras[sensor.sensor_id] = [baseline_shift |-> 1]
            /\ (sensor._chain.calc_block.configured /\ num_links # NumJoints) =>
                  (~ret.res.ok /\ ret.res.err = "AssertionError")
            /\ (sensor._chain.calc_block.configured /\ num_links = NumJoints) => ret.res.ok

\* a descriptor of a two-link chain whose before and after lists share a name
C7_Witness ==
    /\ ret.op = "build_sparsity_dict"
    /\ ret.res.ok
    /\ Len(ret.res.val.dh_chains[sensor._config_dict.chain.chain_id]) = 2
    /\ Cardinality(DOMAIN ret.res.val.transforms)
          < Len(sensor._config_dict.chain.before_chain \o sensor._config_dict.chain.after_chain)

(* C8: only update_config changes a sensor: every other call, returning or  *)
(* failing, leaves config, bound observations (each component of the joint- *)
(* state vector included), camera view and chain accessor as they were, so  *)
(* compute_residual returns after the call what it returned before it.      *)
C8_OnlyUpdateConfigMutates ==
    [][ret'.op # "update_config" =>
          /\ sensor' = sensor
          /\ \A t \in TargetPts : compute_residual(sensor', t) = compute_residual(sensor, t)]_vars

\* compute_cov has perturbed two joints, and the bound vector is as it was
C8_Witness ==
    /\ ret.op = "compute_cov"
    /\ Len(probe.calls) = 3
    /\ probe.calls[3] # probe.x0
    /\ sensor._M_chain.chain_state.position = probe.x0

(* C9: in every state reached by update_config calls, failing ones          *)
(* included, the camera view and the chain parameters of the sensor come    *)
(* from one and the same robot_params argument.                             *)
C9_ParametersFromOneRobotParams ==
    (sensor._camera.bound /\ sensor._chain.calc_block.configured) =>
        sensor._camera.src = sensor._chain.calc_block.src

\* what C10 says of a compute_cov call: J+1 calls of the forward model, the
\* first on the bound vector, call i+1 on the bound vector with epsilon added
\* to component i alone, and row i of Jt the scaled difference to the baseline
JacobianAsClaimed ==
    /\ Len(probe.calls) = NumJoints + 1
    /\ probe.calls[1] = probe.x0
    /\ \A i \in 1..NumJoints : probe.calls[i + 1] = [probe.x0 EXCEPT ![i] = @ + epsilon]
    /\ probe.Jt.r = NumJoints
    /\ \A i \in 1..NumJoints :
          LET perturbed == Forward([probe.x0 EXCEPT ![i] = @ + epsilon])
              baseline == Forward(probe.x0)
          IN  \A k \in 1..probe.Jt.c :
                 probe.Jt.d[<<i, k>>] = (perturbed[k] - baseline[k]) \div epsilon

(* C10 as stated: in compute_cov on a chain with J joints (the sensor being *)
(* configured) the forward model is evaluated J+1 times, on the bound       *)
(* vector and then per joint i on the bound vector with +epsilon in         *)
(* component i only, and row i of the Jacobian is (perturbed - baseline) /  *)
(* epsilon.                                                                 *)
C10_JacobianOfEveryCall ==
    (ret.op = "compute_cov" /\ Configured) => JacobianAsClaimed

(* C10 amended: the same, for target_pts with as many columns as there are  *)
(* bound image points.                                                      *)
C10_JacobianOfMatchingTargets ==
    (ret.op = "compute_cov" /\ Configured /\ Len(ret.arg) = NumPoints) => JacobianAsClaimed

\* compute_cov on two joints and two points, with a non-zero Jacobian
C10_Witness ==
    /\ ret.op = "compute_cov"
    /\ Configured
    /\ Len(ret.arg) = NumPoints
    /\ NumJoints = 2
    /\ NumPoints = 2
    /\ probe.Jt.d[<<2, 1>>] # 0

=============================================================================
